---- MODULE Spec2Model ----
(***************************************************************************)
(* The custom WebSocket protocol engine of Common/websocket_extensions.py  *)
(* (wire codec, ratelimiter, receive loop) and the session/resource        *)
(* ownership registry the protocol serves.                                 *)
(***************************************************************************)
EXTENDS Integers, Sequences, FiniteSets, TLC

VARIABLES
    ratelimited,    \* WSResponseMixin.ratelimited
    limit,          \* WSResponseMixin.limit    (0 stands for None when not ratelimited)
    interval,       \* WSResponseMixin.interval (0 stands for None when not ratelimited)
    hits,           \* WSResponseMixin.__hits, the ratelimit window
    sent_unacked,   \* keys of WSResponseMixin.__sent_unacked
    recv_unacked,   \* WSResponseMixin.__recv_unacked
    closed,         \* the transport's closed flag
    close_code,     \* the transport's close code (0 stands for None)
    clock,          \* the last value time() returned
    pc,             \* position of the task iterating the connection
    ret,            \* outcome of the last __anext__ call
    nframes,        \* number of frames the transport has handed to __anext__
    last,           \* the last loop iteration of __anext__: its frame and what was done
    ncalls,         \* number of check_ratelimit calls on the window
    first_call,     \* time of the first check_ratelimit call
    delivered,      \* the Events returned to the application, in order
    owner_of,       \* ownership registry: resource -> session
    resource_of,    \* ownership registry: session -> resource
    reg_last,       \* the last registry operation and its result
    close_frames,   \* number of close frames the transport has sent
    close_calls,    \* the calls of WSResponseMixin.close so far, with their results
    wrapped,        \* the runs of __coro_wrapper__ so far and what each did
    error_futr      \* WSResponseMixin.__error_futr (0 stands for a pending future)

registry_vars == <<owner_of, resource_of, reg_last>>
lifecycle_vars == <<close_frames, close_calls, wrapped, error_futr>>
vars == <<ratelimited, limit, interval, hits, sent_unacked, recv_unacked,
          closed, close_code, clock, pc, ret, nframes, last, ncalls,
          first_call, delivered, owner_of, resource_of, reg_last,
          close_frames, close_calls, wrapped, error_futr>>

----------------------------------------------------------------------------
(* Bounds of the model *)

MaxFrames == 3
MaxTime == 1
MaxLimit == 2
MaxCalls == 4
MaxCallTime == 3
MaxOps == 4
NumSessions == 3
NumResources == 3
MaxCloses == 3
MaxTasks == 2

Ids == {"a", "b"}
Limits == 0..MaxLimit
Intervals == {1}
CallIntervals == {1, 2, 10}
Times == 0..MaxTime

----------------------------------------------------------------------------
(* Enumerations of websocket_extensions.py *)

CustomWSMessageType == {"event", "ack"}
WSEventStatus == {"normal", "error", "fatal"}

InvalidFrameType == 4001
InvalidJSON == 4002
MissingField == 4003
InvalidType == 4004
InvalidValue == 4005
DuplicateEventID == 4006
UnknownEvent == 4008
InternalError == 4999
POLICY_VIOLATION == 1008
GOING_AWAY == 1001

----------------------------------------------------------------------------
(* JSON values as the codec distinguishes them.  A field of an object is   *)
(* absent, holds a value of the wrong JSON type, or holds a string.        *)

Absent == "<absent>"
NonStr == "<nonstr>"
Other == "<other>"
Naive == "<naive>"
Aware == "<aware>"
Str == "<str>"
Map == "<map>"
NonMap == "<nonmap>"
NoValue == "<none>"

TypeVals == CustomWSMessageType \cup {Absent, NonStr, Other}
IdVals == Ids \cup {Absent, NonStr}
SentAtVals == {Aware, Naive, Absent, NonStr}
StatusVals == WSEventStatus \cup {Absent, NonStr, Other}
ReasonVals == {Absent, Str, NonStr}
PayloadVals == {Map, Absent, NonMap}

\* message.json() of a text frame: text that does not parse, a JSON value that
\* is not an object (array, scalar), or an object with its fields
NoFields == [type |-> Absent, id |-> Absent, sent_at |-> Absent,
             status |-> Absent, reason |-> Absent, payload |-> Absent]
Unparsed(k) == [kind |-> k] @@ NoFields
Objects == [kind : {"object"}, type : TypeVals, id : IdVals, sent_at : SentAtVals,
            status : StatusVals, reason : ReasonVals, payload : PayloadVals]

\* the number of defective fields of an object, by the schema of its type
Bad(b) == IF b THEN 1 ELSE 0
NumDefects(j) ==
    Bad(j.type \notin CustomWSMessageType)
    + Bad(j.id \notin Ids)
    + Bad(j.sent_at # Aware)
    + (IF j.type = "event"
       THEN Bad(j.status \notin WSEventStatus) + Bad(j.reason = NonStr)
            + Bad(j.payload # Map)
       ELSE 0)

\* in a frame with a defect the sound fields hold one fixed value each
Canonical(j) ==
    /\ j.id \in Ids => j.id = "a"
    /\ j.status \in WSEventStatus => j.status = "normal"
    /\ j.reason # NonStr => j.reason = Absent

\* fields a message type does not have are left out of the object
NoExtras(j) ==
    j.type # "event" => j.status = Absent /\ j.reason = Absent /\ j.payload = Absent

\* a text frame holding an Event object without a defect
WellFormedEventFrame(m) ==
    m.type = "TEXT" /\ m.data.kind = "object" /\ m.data.type = "event"
    /\ NumDefects(m.data) = 0

\* the frames a peer sends on a connection: every well-formed Event and Ack,
\* every object with one defective field, and the frames that hold no object
InputObjects ==
    {j \in Objects :
        /\ NoExtras(j)
        /\ NumDefects(j) = 0 \/ (NumDefects(j) <= 1 /\ Canonical(j))}
TextFrame(j) == [type |-> "TEXT", data |-> j]
NonObjectFrames ==
    {[type |-> "BINARY", data |-> Unparsed("binary")]}
    \cup {TextFrame(Unparsed(k)) : k \in {"notjson", "array", "scalar"}}
Frames == NonObjectFrames \cup {TextFrame(j) : j \in InputObjects}

----------------------------------------------------------------------------
(* Wire codec *)

NoMessage == [cls |-> NoValue, id |-> NoValue, sent_at |-> NoValue,
              status |-> NoValue, reason |-> NoValue, payload |-> NoValue]
Raise(e) == [exc |-> e, code |-> 0, val |-> NoMessage]
Return(v) == [exc |-> "none", code |-> 0, val |-> v]

\* mutant: a timestamp without a UTC offset is accepted
decode_datetime_naive_ok(t) ==
    IF t = NonStr THEN Raise("TypeError")
    ELSE IF t \in {Aware, Naive} THEN Return([NoMessage EXCEPT !.sent_at = Aware])
    ELSE Raise("ValueError")

\* datetime.strptime(t, "%Y-%m-%dT%H:%M:%S.%f%z")
decode_datetime(t) ==
    IF t = NonStr THEN Raise("TypeError")
    ELSE IF t = Aware THEN Return([NoMessage EXCEPT !.sent_at = Aware])
    ELSE Raise("ValueError")

CustomWSMessage_init(json, cls) ==
    IF json.id = Absent THEN Raise("KeyError")
    ELSE IF json.sent_at = Absent THEN Raise("KeyError")
    ELSE IF decode_datetime(json.sent_at).exc # "none"
         THEN decode_datetime(json.sent_at)
    ELSE IF json.id = NonStr THEN Raise("TypeError")
    ELSE Return([NoMessage EXCEPT !.cls = cls, !.id = json.id, !.sent_at = Aware])

WSEvent_init(json) ==
    LET base == CustomWSMessage_init(json, "WSEvent") IN
    IF base.exc # "none" THEN base
    ELSE IF json.status = Absent THEN Raise("KeyError")
    ELSE IF json.status \notin WSEventStatus THEN Raise("ValueError")
    ELSE IF json.payload = Absent THEN Raise("KeyError")
    ELSE IF json.reason = NonStr THEN Raise("TypeError")
    ELSE IF json.payload # Map THEN Raise("TypeError")
    ELSE Return([base.val EXCEPT
                    !.status = json.status,
                    !.reason = IF json.reason = Absent THEN NoValue ELSE Str,
                    !.payload = Map])

WSAck_init(json) == CustomWSMessage_init(json, "WSAck")

protocol_error(code) == [exc |-> "WSException", code |-> code, val |-> NoMessage]

\* the body of the try block of custom_message_factory
factory_try(message) ==
    LET json == message.data IN
    IF json.kind = "notjson" THEN Raise("JSONDecodeError")
    ELSE IF json.kind # "object" THEN Raise("TypeError")
    ELSE IF json.type = Absent THEN Raise("KeyError")
    ELSE IF json.type \notin CustomWSMessageType THEN Raise("ValueError")
    ELSE IF json.type = "event" THEN WSEvent_init(json)
    ELSE WSAck_init(json)

custom_message_factory(message) ==
    IF message.type # "TEXT" THEN protocol_error(InvalidFrameType)
    ELSE LET r == factory_try(message) IN
         CASE r.exc = "JSONDecodeError" -> protocol_error(InvalidJSON)
           [] r.exc = "KeyError" -> protocol_error(MissingField)
           [] r.exc = "TypeError" -> protocol_error(InvalidType)
           [] r.exc = "ValueError" -> protocol_error(InvalidValue)
           [] OTHER -> r

----------------------------------------------------------------------------
(* Ratelimiter *)

\* hits[:] = [hit for hit in hits if hit > cutoff]
Survivors(h, cutoff) == SelectSeq(h, LAMBDA hit : hit > cutoff)

\* mutant: the rejected call is recorded as a hit before the exception is raised
check_ratelimit_consumes(h, lim, int, t) ==
    LET kept == Survivors(h, t - int)
    IN IF Len(kept) >= lim
       THEN [raised |-> TRUE, hits |-> Append(kept, t),
             exc_hits |-> Append(kept, t), exc_limit |-> lim, exc_interval |-> int]
       ELSE [raised |-> FALSE, hits |-> Append(kept, t),
             exc_hits |-> <<>>, exc_limit |-> 0, exc_interval |-> 0]

\* mutant: the window is compared with > instead of >=
check_ratelimit_off_by_one(h, lim, int, t) ==
    LET kept == Survivors(h, t - int)
    IN IF Len(kept) > lim
       THEN [raised |-> TRUE, hits |-> kept,
             exc_hits |-> kept, exc_limit |-> lim, exc_interval |-> int]
       ELSE [raised |-> FALSE, hits |-> Append(kept, t),
             exc_hits |-> <<>>, exc_limit |-> 0, exc_interval |-> 0]

\* check_ratelimit(hits, limit=lim, interval=int) with time() = t: the window
\* it leaves, whether RatelimitException is raised and what the exception carries
check_ratelimit(h, lim, int, t) ==
    LET cutoff == t - int
        kept == Survivors(h, cutoff)
    IN IF Len(kept) >= lim
       THEN [raised |-> TRUE, hits |-> kept,
             exc_hits |-> kept, exc_limit |-> lim, exc_interval |-> int]
       ELSE [raised |-> FALSE, hits |-> Append(kept, t),
             exc_hits |-> <<>>, exc_limit |-> 0, exc_interval |-> 0]

NoCheck(h) == [raised |-> FALSE, hits |-> h,
               exc_hits |-> <<>>, exc_limit |-> 0, exc_interval |-> 0]

----------------------------------------------------------------------------
(* Protocol engine: WSResponseMixin *)

\* __recv_event__ and __recv_ack__: both bodies are "..."
recv_event(recv, event) == recv
recv_ack(sent, ack) == sent

\* mutant: every decoded message is returned, an Ack too
returns_message_any(custom_message) == custom_message.cls \in {"WSEvent", "WSAck"}

\* isinstance(custom_message, WSEvent): the branch of __anext__ that returns
returns_message(custom_message) == custom_message.cls = "WSEvent"

\* mutant: a ratelimit violation is reported with a codec close code
ratelimit_close_code_codec == InvalidFrameType

\* the close code __anext__ passes to close() on RatelimitException
ratelimit_close_code == POLICY_VIOLATION

\* mutant: a close of a closed connection closes it again
close_again(code) ==
    [result |-> TRUE,
     closed |-> TRUE,
     close_code |-> code,
     close_frames |-> close_frames + 1]

\* mutant: close sends the close frame but the connection stays open
close_stays_open(code) ==
    [result |-> TRUE,
     closed |-> closed,
     close_code |-> code,
     close_frames |-> close_frames + 1]

\* WSResponseMixin.close(code=code): the result of super().close(), which is
\* True when this call closed the connection and False when the connection
\* was closed already, and the transport state the call leaves; the branch
\* taken on a True result is empty
close(code) ==
    [result |-> ~closed,
     closed |-> TRUE,
     close_code |-> IF closed THEN close_code ELSE code,
     close_frames |-> IF closed THEN close_frames ELSE close_frames + 1]

\* the record of one call of close(code=code)
CloseCall(code) ==
    [code |-> code, result |-> close(code).result, was_closed |-> closed,
     code_pre |-> close_code, frames_pre |-> close_frames]

\* mutant: on an Ack the Event returned last is returned once more
anext_step_redeliver(message, t) ==
    LET rl == IF ratelimited THEN check_ratelimit(hits, limit, interval, t)
              ELSE NoCheck(hits)
        m == custom_message_factory(message)
        base == [rl |-> rl, msg |-> NoMessage, code |-> 0,
                 sent |-> sent_unacked, recv |-> recv_unacked]
    IN IF rl.raised
       THEN [base EXCEPT !.code = ratelimit_close_code] @@ [do |-> "close"]
       ELSE IF m.exc = "WSException"
       THEN [base EXCEPT !.code = m.code] @@ [do |-> "close"]
       ELSE IF returns_message(m.val)
       THEN [base EXCEPT !.msg = m.val, !.recv = recv_event(recv_unacked, m.val)]
            @@ [do |-> "return"]
       ELSE IF delivered # <<>>
       THEN [base EXCEPT !.msg = [NoMessage EXCEPT
                                     !.cls = "WSEvent",
                                     !.id = delivered[Len(delivered)].id]]
            @@ [do |-> "return"]
       ELSE [base EXCEPT !.sent = recv_ack(sent_unacked, m.val)]
            @@ [do |-> "continue"]

\* mutant: the frame is decoded before the ratelimit check is made
anext_step_decode_first(message, t) ==
    LET m == custom_message_factory(message)
        rl == IF ratelimited /\ m.exc # "WSException"
              THEN check_ratelimit(hits, limit, interval, t)
              ELSE NoCheck(hits)
        base == [rl |-> rl, msg |-> NoMessage, code |-> 0,
                 sent |-> sent_unacked, recv |-> recv_unacked]
    IN IF m.exc = "WSException"
       THEN [base EXCEPT !.code = m.code] @@ [do |-> "close"]
       ELSE IF rl.raised
       THEN [base EXCEPT !.code = ratelimit_close_code] @@ [do |-> "close"]
       ELSE IF returns_message(m.val)
       THEN [base EXCEPT !.msg = m.val, !.recv = recv_event(recv_unacked, m.val)]
            @@ [do |-> "return"]
       ELSE [base EXCEPT !.sent = recv_ack(sent_unacked, m.val)]
            @@ [do |-> "continue"]

\* one iteration of the loop of __anext__ on frame `message`, time() giving t
anext_step(message, t) ==
    LET rl == IF ratelimited THEN check_ratelimit(hits, limit, interval, t)
              ELSE NoCheck(hits)
        m == custom_message_factory(message)
        base == [rl |-> rl, msg |-> NoMessage, code |-> 0,
                 sent |-> sent_unacked, recv |-> recv_unacked]
    IN IF rl.raised
       THEN [base EXCEPT !.code = ratelimit_close_code] @@ [do |-> "close"]
       ELSE IF m.exc = "WSException"
       THEN [base EXCEPT !.code = m.code] @@ [do |-> "close"]
       ELSE IF returns_message(m.val)
       THEN [base EXCEPT !.msg = m.val, !.recv = recv_event(recv_unacked, m.val)]
            @@ [do |-> "return"]
       ELSE [base EXCEPT !.sent = recv_ack(sent_unacked, m.val)]
            @@ [do |-> "continue"]

NoReturn == [kind |-> "none", msg |-> NoMessage]
StopAsyncIteration == [kind |-> "StopAsyncIteration", msg |-> NoMessage]
NoFrame == [type |-> "NONE", data |-> Unparsed("none")]
NoLast == [n |-> 0, message |-> NoFrame, checked |-> FALSE, pre |-> <<>>,
           rl |-> NoCheck(<<>>), do |-> "none", code |-> 0]

NoRegOp == [n |-> 0, op |-> "none", session |-> 0, resource |-> 0, result |-> "none",
            owner_pre |-> [r \in 1..NumResources |-> 0],
            resource_pre |-> [s \in 1..NumSessions |-> 0]]

\* WSResponseMixin.__init__ and Server.__init__
InitCommon ==
    /\ hits = <<>>
    /\ sent_unacked = {}
    /\ recv_unacked = {}
    /\ closed = FALSE
    /\ close_code = 0
    /\ clock = 0
    /\ pc = "idle"
    /\ ret = NoReturn
    /\ nframes = 0
    /\ last = NoLast
    /\ ncalls = 0
    /\ first_call = 0
    /\ delivered = <<>>
    /\ owner_of = [r \in 1..NumResources |-> 0]
    /\ resource_of = [s \in 1..NumSessions |-> 0]
    /\ reg_last = NoRegOp
    /\ close_frames = 0
    /\ close_calls = <<>>
    /\ wrapped = <<>>
    /\ error_futr = 0

Init ==
    /\ \/ ratelimited = FALSE /\ limit = 0 /\ interval = 0
       \/ ratelimited = TRUE /\ limit \in Limits /\ interval \in Intervals
    /\ InitCommon

\* the application awaits __anext__
CallAnext ==
    /\ pc = "idle"
    /\ pc' = "waiting"
    /\ ret' = NoReturn
    /\ UNCHANGED <<ratelimited, limit, interval, hits, sent_unacked, recv_unacked,
                   closed, close_code, clock, nframes, last, ncalls, first_call,
                   delivered, registry_vars, lifecycle_vars>>

\* super().__anext__() hands a frame to the waiting call, which runs one
\* iteration of its loop
RecvFrame(message, t) ==
    /\ pc = "waiting"
    /\ ~closed
    /\ nframes < MaxFrames
    /\ LET step == anext_step(message, t) IN
       /\ hits' = step.rl.hits
       /\ clock' = IF ratelimited THEN t ELSE clock
       /\ ncalls' = IF ratelimited THEN ncalls + 1 ELSE ncalls
       /\ first_call' = IF ratelimited /\ ncalls = 0 THEN t ELSE first_call
       /\ sent_unacked' = step.sent
       /\ recv_unacked' = step.recv
       /\ nframes' = nframes + 1
       /\ last' = [n |-> nframes + 1, message |-> message, checked |-> ratelimited,
                   pre |-> hits, rl |-> step.rl, do |-> step.do, code |-> step.code]
       /\ CASE step.do = "close" ->
                 /\ closed' = close(step.code).closed
                 /\ close_code' = close(step.code).close_code
                 /\ close_frames' = close(step.code).close_frames
                 /\ close_calls' = Append(close_calls, CloseCall(step.code))
                 /\ pc' = "idle"
                 /\ ret' = StopAsyncIteration
                 /\ UNCHANGED delivered
            [] step.do = "return" ->
                 /\ pc' = "idle"
                 /\ ret' = [kind |-> "return", msg |-> step.msg]
                 /\ delivered' = Append(delivered, [id |-> step.msg.id, n |-> nframes + 1,
                                                    cls |-> step.msg.cls])
                 /\ UNCHANGED <<closed, close_code, close_frames, close_calls>>
            [] OTHER ->
                 /\ UNCHANGED <<pc, ret, delivered, closed, close_code,
                                close_frames, close_calls>>
    /\ UNCHANGED <<ratelimited, limit, interval, registry_vars, wrapped, error_futr>>

\* super().__anext__() raises StopAsyncIteration: the peer closed the
\* connection, or it is closed already
EndOfStream ==
    /\ pc = "waiting"
    /\ pc' = "idle"
    /\ ret' = StopAsyncIteration
    /\ closed' = TRUE
    /\ close_code' = IF closed THEN close_code ELSE 1000
    /\ close_frames' = IF closed THEN close_frames ELSE close_frames + 1
    /\ UNCHANGED <<ratelimited, limit, interval, hits, sent_unacked, recv_unacked,
                   clock, nframes, last, ncalls, first_call, delivered,
                   registry_vars, close_calls, wrapped, error_futr>>

\* "send event": the sent Event is tracked as unacknowledged
SendEvent(id) ==
    /\ ~closed
    /\ id \notin sent_unacked
    /\ sent_unacked' = sent_unacked \cup {id}
    /\ UNCHANGED <<ratelimited, limit, interval, hits, recv_unacked, closed,
                   close_code, clock, pc, ret, nframes, last, ncalls, first_call,
                   delivered, registry_vars, lifecycle_vars>>

Next ==
    \/ CallAnext
    \/ \E message \in Frames : \E t \in Times : t >= clock /\ RecvFrame(message, t)
    \/ EndOfStream
    \/ \E id \in Ids : SendEvent(id)

Spec == Init /\ [][Next]_vars

----------------------------------------------------------------------------
(* The ratelimiter on its own: successive calls of check_ratelimit on one   *)
(* window                                                                  *)

InitRatelimit ==
    /\ ratelimited = TRUE
    /\ limit \in 0..(MaxCalls - 1)
    /\ interval \in CallIntervals
    /\ InitCommon

CheckRatelimit(t) ==
    /\ ncalls < MaxCalls
    /\ t >= clock
    /\ LET rl == check_ratelimit(hits, limit, interval, t) IN
       /\ hits' = rl.hits
       /\ last' = [NoLast EXCEPT !.n = ncalls + 1, !.checked = TRUE, !.pre = hits,
                                 !.rl = rl,
                                 !.do = IF rl.raised THEN "raise" ELSE "pass"]
    /\ clock' = t
    /\ ncalls' = ncalls + 1
    /\ first_call' = IF ncalls = 0 THEN t ELSE first_call
    /\ UNCHANGED <<ratelimited, limit, interval, sent_unacked, recv_unacked, closed,
                   close_code, pc, ret, nframes, delivered, registry_vars,
                   lifecycle_vars>>

NextRatelimit == \E t \in 0..MaxCallTime : CheckRatelimit(t)

SpecRatelimit == InitRatelimit /\ [][NextRatelimit]_vars

----------------------------------------------------------------------------
(* Ownership registry: claim and release of a Resource by a Session.  0 is  *)
(* "none" in both lookup directions.                                        *)

Sessions == 1..NumSessions
Resources == 1..NumResources

\* the resource is already claimed by a different session
Locked(s, r) == owner_of[r] \notin {0, s}
\* the requesting session already owns a different resource
Bound(s, r) == resource_of[s] \notin {0, r}

\* mutant: claim does not check whether the session already owns a resource
claim_results_unbound(s, r) ==
    IF Locked(s, r) THEN {"ResourceLocked"} ELSE {"ok"}

\* mutant: claim does not check whether the resource is already claimed
claim_results_unlocked(s, r) ==
    IF Bound(s, r) THEN {"SessionBound"} ELSE {"ok"}

\* the results claim(s, r) may have: the order of the two checks is not fixed
claim_results(s, r) ==
    IF Locked(s, r) /\ Bound(s, r) THEN {"ResourceLocked", "SessionBound"}
    ELSE IF Locked(s, r) THEN {"ResourceLocked"}
    ELSE IF Bound(s, r) THEN {"SessionBound"}
    ELSE {"ok"}

\* mutant: release does not check the owner
release_result_unchecked(s, r) == "ok"

\* the result of release(s, r)
release_result(s, r) == IF owner_of[r] = s THEN "ok" ELSE "ResourceNotOwned"

InitRegistry ==
    /\ ratelimited = FALSE /\ limit = 0 /\ interval = 0
    /\ InitCommon

Claim(s, r) ==
    /\ reg_last.n < MaxOps
    /\ \E res \in claim_results(s, r) :
          /\ reg_last' = [n |-> reg_last.n + 1, op |-> "claim", session |-> s,
                          resource |-> r, result |-> res,
                          owner_pre |-> owner_of, resource_pre |-> resource_of]
          /\ IF res = "ok"
             THEN /\ owner_of' = [owner_of EXCEPT ![r] = s]
                  /\ resource_of' = [resource_of EXCEPT ![s] = r]
             ELSE UNCHANGED <<owner_of, resource_of>>
    /\ UNCHANGED <<ratelimited, limit, interval, hits, sent_unacked, recv_unacked,
                   closed, close_code, clock, pc, ret, nframes, last, ncalls,
                   first_call, delivered, lifecycle_vars>>

Release(s, r) ==
    /\ reg_last.n < MaxOps
    /\ LET res == release_result(s, r) IN
          /\ reg_last' = [n |-> reg_last.n + 1, op |-> "release", session |-> s,
                          resource |-> r, result |-> res,
                          owner_pre |-> owner_of, resource_pre |-> resource_of]
          /\ IF res = "ok"
             THEN /\ owner_of' = [owner_of EXCEPT ![r] = 0]
                  /\ resource_of' = [resource_of EXCEPT ![s] = 0]
             ELSE UNCHANGED <<owner_of, resource_of>>
    /\ UNCHANGED <<ratelimited, limit, interval, hits, sent_unacked, recv_unacked,
                   closed, close_code, clock, pc, ret, nframes, last, ncalls,
                   first_call, delivered, lifecycle_vars>>

NextRegistry ==
    \/ \E s \in Sessions : \E r \in Resources : Claim(s, r)
    \/ \E s \in Sessions : \E r \in Resources : Release(s, r)

SpecRegistry == InitRegistry /\ [][NextRegistry]_vars

----------------------------------------------------------------------------
(* Connection lifecycle: close() called by the application, and coroutines  *)
(* run under __coro_wrapper__                                               *)

\* how the coroutine awaited by __coro_wrapper__ ends
Outcomes == {"return", "CancelledError", "WSException", "Exception"}

NoHandling == [logged |-> "none", signal |-> 0, raised |-> "none"]

\* mutant: a cancellation is handled as a fault
coro_wrapper_cancel_as_fault(outcome, code) ==
    CASE outcome = "CancelledError" ->
            [NoHandling EXCEPT !.logged = "ERROR", !.signal = InternalError]
      [] outcome = "WSException" -> [NoHandling EXCEPT !.signal = code]
      [] outcome = "Exception" ->
            [NoHandling EXCEPT !.logged = "ERROR", !.signal = InternalError]
      [] OTHER -> NoHandling

\* __coro_wrapper__(coro) when coro ends with `outcome` (a WSException carrying
\* `code`): the level it logs at, the code it passes to __signal_close__ (0
\* when it does not call it) and the exception that leaves the wrapper
coro_wrapper(outcome, code) ==
    CASE outcome = "CancelledError" -> [NoHandling EXCEPT !.logged = "INFO"]
      [] outcome = "WSException" -> [NoHandling EXCEPT !.signal = code]
      [] outcome = "Exception" ->
            [NoHandling EXCEPT !.logged = "ERROR", !.signal = InternalError]
      [] OTHER -> NoHandling

\* __signal_close__(code): the body is "...", the future stays as it is
signal_close(futr, code) == futr

InitLifecycle ==
    /\ ratelimited = FALSE /\ limit = 0 /\ interval = 0
    /\ InitCommon

\* the application (or Server.__stop__) calls close(code=code)
Close(code) ==
    /\ Len(close_calls) < MaxCloses
    /\ close_calls' = Append(close_calls, CloseCall(code))
    /\ closed' = close(code).closed
    /\ close_code' = close(code).close_code
    /\ close_frames' = close(code).close_frames
    /\ UNCHANGED <<ratelimited, limit, interval, hits, sent_unacked, recv_unacked,
                   clock, pc, ret, nframes, last, ncalls, first_call, delivered,
                   registry_vars, wrapped, error_futr>>

\* a coroutine awaited by __coro_wrapper__ ends and the wrapper handles it
CoroWrapper(outcome, code) ==
    /\ Len(wrapped) < MaxTasks
    /\ LET r == coro_wrapper(outcome, code) IN
       /\ wrapped' = Append(wrapped, [outcome |-> outcome, code |-> code,
                                      logged |-> r.logged, signal |-> r.signal,
                                      raised |-> r.raised])
       /\ error_futr' = IF r.signal # 0 THEN signal_close(error_futr, r.signal)
                        ELSE error_futr
    /\ UNCHANGED <<ratelimited, limit, interval, hits, sent_unacked, recv_unacked,
                   closed, close_code, clock, pc, ret, nframes, last, ncalls,
                   first_call, delivered, registry_vars, close_frames, close_calls>>

\* __wait_for_close__: once the error future holds a code, close(code=code).
\* Nothing resolves the future (signal_close leaves it pending), so this step
\* is never enabled and is not part of NextLifecycle.
WaitForClose ==
    /\ error_futr # 0
    /\ close_calls' = Append(close_calls, CloseCall(error_futr))
    /\ closed' = close(error_futr).closed
    /\ close_code' = close(error_futr).close_code
    /\ close_frames' = close(error_futr).close_frames
    /\ UNCHANGED <<ratelimited, limit, interval, hits, sent_unacked, recv_unacked,
                   clock, pc, ret, nframes, last, ncalls, first_call, delivered,
                   registry_vars, wrapped, error_futr>>

\* the frames of the lifecycle runs: a well-formed Event and a binary frame
LifecycleFrames ==
    {m \in Frames : m.type = "BINARY" \/ (WellFormedEventFrame(m) /\ m.data.id = "a"
                                             /\ m.data.status = "normal"
                                             /\ m.data.reason = Absent)}

NextLifecycle ==
    \/ CallAnext
    \/ \E message \in LifecycleFrames : RecvFrame(message, 0)
    \/ EndOfStream
    \/ \E code \in {GOING_AWAY, UnknownEvent} : Close(code)
    \/ \E outcome \in Outcomes :
          CoroWrapper(outcome, IF outcome = "WSException" THEN UnknownEvent ELSE 0)

SpecLifecycle == InitLifecycle /\ [][NextLifecycle]_vars

----------------------------------------------------------------------------
(* The wire codec on its own: custom_message_factory applied to one frame,  *)
(* drawn from every combination of field values                             *)

AllFrames == NonObjectFrames \cup {TextFrame(j) : j \in Objects}

InitCodec ==
    /\ ratelimited = FALSE /\ limit = 0 /\ interval = 0
    /\ InitCommon

\* custom_message_factory(message): `last` records the frame and the close
\* code of the WSException raised, `ret` the message returned
Decode(message) ==
    /\ last.n = 0
    /\ LET r == custom_message_factory(message) IN
       /\ last' = [NoLast EXCEPT !.n = 1, !.message = message, !.code = r.code,
                                 !.do = IF r.exc = "WSException" THEN "raise"
                                        ELSE "return"]
       /\ ret' = IF r.exc = "WSException" THEN NoReturn
                 ELSE [kind |-> "return", msg |-> r.val]
    /\ UNCHANGED <<ratelimited, limit, interval, hits, sent_unacked, recv_unacked,
                   closed, close_code, clock, pc, nframes, ncalls, first_call,
                   delivered, registry_vars, lifecycle_vars>>

NextCodec == \E message \in AllFrames : Decode(message)

SpecCodec == InitCodec /\ [][NextCodec]_vars

----------------------------------------------------------------------------
(* Vocabulary of the properties *)

IsObject(m) == m.type = "TEXT" /\ m.data.kind = "object"
WellFormedEvent(m) ==
    IsObject(m) /\ m.data.type = "event" /\ NumDefects(m.data) = 0
WellFormedAck(m) ==
    IsObject(m) /\ m.data.type = "ack" /\ NumDefects(m.data) = 0

\* the frame of the last iteration reached the codec: the connection is not
\* ratelimited, or the ratelimit check let the frame pass
LastFrameDecoded == last.n >= 1 /\ last.message # NoFrame /\ ~last.rl.raised

\* no Event was returned for frame number n
NotDelivered(n) == \A i \in DOMAIN delivered : delivered[i].n # n

\* the close codes the close-code table maps the defects of frame m to.  A
\* value of the wrong JSON type in an enumerated field is a field of the wrong
\* type and an unrecognized value at once; a timestamp that does not parse is
\* counted the same way; an unrecognized type discriminator leaves the fields
\* the message requires unknown.
FieldCodes(j) ==
    (IF j.type = Absent THEN {4003} ELSE {})
    \cup (IF j.type = Other THEN {4003, 4005} ELSE {})
    \cup (IF j.type = NonStr THEN {4004, 4005} ELSE {})
    \cup (IF j.id = Absent THEN {4003} ELSE {})
    \cup (IF j.id = NonStr THEN {4004} ELSE {})
    \cup (IF j.sent_at = Absent THEN {4003} ELSE {})
    \cup (IF j.sent_at = NonStr THEN {4004} ELSE {})
    \cup (IF j.sent_at = Naive THEN {4004, 4005} ELSE {})
    \cup (IF j.type = "event" /\ j.status = Absent THEN {4003} ELSE {})
    \cup (IF j.type = "event" /\ j.status = Other THEN {4005} ELSE {})
    \cup (IF j.type = "event" /\ j.status = NonStr THEN {4004, 4005} ELSE {})
    \cup (IF j.type = "event" /\ j.reason = NonStr THEN {4004} ELSE {})
    \cup (IF j.type = "event" /\ j.payload = Absent THEN {4003} ELSE {})
    \cup (IF j.type = "event" /\ j.payload = NonMap THEN {4004} ELSE {})
MappedCodes(m) ==
    IF m.type # "TEXT" THEN {4001}
    ELSE IF m.data.kind # "object" THEN {4002}
    ELSE FieldCodes(m.data)

----------------------------------------------------------------------------
(* C1 *)

\* C1: every malformed inbound frame that reaches the codec closes the
\* connection with exactly the close code the table maps its defect to
\* (4001 non-text frame, 4002 text that is not valid structured data, 4003
\* missing field, 4004 field of the wrong type, 4005 unrecognized enumerated
\* value), and no Event is delivered for that frame.
C1_MalformedFrameClosesWithMappedCode ==
    (LastFrameDecoded /\ MappedCodes(last.message) # {}) =>
        /\ closed
        /\ close_code \in MappedCodes(last.message)
        /\ NotDelivered(last.n)

----------------------------------------------------------------------------
(* C2 *)

\* C2: a well-formed Ack frame is never returned by the receive operation:
\* the engine absorbs it and the call goes on waiting for the next frame (or
\* ends with the stream), and every value the receive operation returns is an
\* Event.
C2_AckNeverReturned ==
    /\ \A i \in DOMAIN delivered : delivered[i].cls = "WSEvent"
    /\ ret.kind = "return" => ret.msg.cls = "WSEvent"
    /\ (LastFrameDecoded /\ WellFormedAck(last.message)) =>
          /\ NotDelivered(last.n)
          /\ \/ pc = "waiting" /\ ret.kind = "none"
             \/ closed /\ ret = StopAsyncIteration

\* an Ack was absorbed after an Event had been returned, and the call waits on
C2_Witness ==
    /\ LastFrameDecoded /\ WellFormedAck(last.message)
    /\ pc = "waiting"
    /\ Len(delivered) >= 1

----------------------------------------------------------------------------
(* C3 *)

\* C3: receiving an Ack with id X removes exactly X from the connection's
\* sent-but-unacknowledged set: X is not in the set afterwards and every
\* other unacknowledged id stays in it.
C3_AckRemovesExactlyItsId ==
    [][(nframes' = nframes + 1 /\ ~last'.rl.raised /\ WellFormedAck(last'.message))
          => sent_unacked' = sent_unacked \ {last'.message.data.id}]_vars

----------------------------------------------------------------------------
(* C4 *)

\* C4: an inbound Event that carries an id an earlier inbound Event of the
\* connection already carried closes the connection with 4006
\* (DuplicateEventID) and is not delivered: no two delivered Events share an
\* id.
C4_DuplicateEventRejected ==
    /\ \A i, j \in DOMAIN delivered : i < j => delivered[i].id # delivered[j].id
    /\ (/\ LastFrameDecoded
        /\ WellFormedEvent(last.message)
        /\ \E i \in DOMAIN delivered :
              delivered[i].n < last.n /\ delivered[i].id = last.message.data.id)
       => closed /\ close_code = 4006 /\ NotDelivered(last.n)

----------------------------------------------------------------------------
(* C5 *)

\* the hits of window h that lie within the last int seconds at time now
Within(h, now, int) == SelectSeq(h, LAMBDA x : now - x < int)

\* C5: on a ratelimited connection, a frame that arrives while the window
\* already holds `limit` hits within the last `interval` seconds closes the
\* connection with the policy-violation close code (1008), no Event is
\* delivered for it, and the call signals end of stream.
C5_RatelimitedFrameClosesWithPolicyViolation ==
    (last.n >= 1 /\ last.checked /\ Len(Within(last.pre, clock, interval)) >= limit) =>
        /\ closed
        /\ close_code = 1008
        /\ NotDelivered(last.n)
        /\ ret.kind # "return"
        /\ pc = "idle" => ret = StopAsyncIteration

\* a frame arrived on a full window that held real hits, and the call ended
\* the stream
C5_Witness ==
    /\ last.checked /\ limit >= 1 /\ Len(last.pre) >= limit
    /\ last.rl.raised
    /\ closed /\ close_code = 1008
    /\ pc = "idle" /\ ret = StopAsyncIteration

----------------------------------------------------------------------------
(* C6 *)

\* the part of the window the last check_ratelimit call kept: the window it
\* left, without the hit it appended when it succeeded
Surviving == IF last.rl.raised THEN hits ELSE SubSeq(hits, 1, Len(hits) - 1)

\* C6: one call of the ratelimiter check at time now (clock) drops every hit
\* older than interval and keeps every hit younger than interval, in order (a
\* hit exactly interval old may go either way); if the surviving hits number
\* >= limit it fails, the error carries the surviving hits, limit and
\* interval, and the window is exactly the surviving hits; otherwise it
\* appends now as the last hit and succeeds.
C6_CheckRatelimitContract ==
    (last.n >= 1 /\ last.checked) =>
        /\ Surviving \in {SelectSeq(last.pre, LAMBDA x : clock - x < interval),
                          SelectSeq(last.pre, LAMBDA x : clock - x <= interval)}
        /\ last.rl.raised <=> Len(Surviving) >= limit
        /\ last.rl.raised =>
              /\ hits = Surviving
              /\ last.rl.exc_hits = Surviving
              /\ last.rl.exc_limit = limit
              /\ last.rl.exc_interval = interval
        /\ ~last.rl.raised => hits = Append(Surviving, clock)

\* a call failed on a window from which an earlier call had dropped the
\* first hit
C6_Witness ==
    /\ last.checked /\ last.rl.raised
    /\ limit >= 1 /\ hits # <<>>
    /\ hits[1] # first_call
    /\ last.rl.exc_hits = hits

----------------------------------------------------------------------------
(* C7 *)

\* C7: from an empty window with limit L >= 1, while all calls so far lie
\* within less than interval seconds of the first, each of the first L calls
\* succeeds and call L+1 fails carrying exactly L hits.
C7_BurstOverLimitFails ==
    (last.n >= 1 /\ last.checked /\ limit >= 1 /\ clock - first_call < interval) =>
        /\ ncalls <= limit => ~last.rl.raised
        /\ ncalls = limit + 1 =>
              last.rl.raised /\ Len(last.rl.exc_hits) = limit

\* limit 3, interval 10: the 4th call within one second of the first fails
\* carrying 3 hits
C7_Witness ==
    /\ limit = 3 /\ interval = 10
    /\ ncalls = 4 /\ clock - first_call <= 1
    /\ last.rl.raised /\ Len(last.rl.exc_hits) = 3

----------------------------------------------------------------------------
(* C8 *)

\* C8: after any sequence of claim and release operations every Resource is
\* owned by at most one Session, every Session owns at most one Resource, and
\* the two lookups agree: owner_of(R) = S if and only if resource_of(S) = R.
C8_OwnershipIsExclusive ==
    /\ \A s \in Sessions : \A r \in Resources :
          owner_of[r] = s <=> resource_of[s] = r
    /\ \A r \in Resources : Cardinality({s \in Sessions : resource_of[s] = r}) <= 1
    /\ \A s \in Sessions : Cardinality({r \in Resources : owner_of[r] = s}) <= 1

\* two resources are owned and the last operation was a rejected claim
C8_Witness ==
    /\ reg_last.op = "claim" /\ reg_last.result # "ok"
    /\ Cardinality({r \in Resources : owner_of[r] # 0}) >= 2

----------------------------------------------------------------------------
(* C9 *)

\* before the last operation the resource was claimed by a different session
LockedBefore == reg_last.owner_pre[reg_last.resource] \notin {0, reg_last.session}
\* before the last operation the session owned a different resource
BoundBefore == reg_last.resource_pre[reg_last.session] \notin {0, reg_last.resource}
\* the last operation left the registry as it was
RegistryUnchanged ==
    owner_of = reg_last.owner_pre /\ resource_of = reg_last.resource_pre

\* C9 as stated: a claim of a resource owned by a different session fails with
\* ResourceLocked, a claim by a session that already owns a different resource
\* fails with SessionBound, and a failed claim leaves the ownership state
\* unchanged.
C9_ConflictingClaimFails ==
    reg_last.op = "claim" =>
        /\ LockedBefore => reg_last.result = "ResourceLocked"
        /\ BoundBefore => reg_last.result = "SessionBound"
        /\ reg_last.result # "ok" => RegistryUnchanged

\* C9 amended: a claim of a resource owned by a different session, by a
\* session that owns no other resource, fails with ResourceLocked; a claim of
\* a resource no other session owns, by a session that already owns a
\* different resource, fails with SessionBound; when both conflicts hold the
\* claim fails with one of the two errors; a failed claim leaves the ownership
\* state unchanged.
C9_ConflictingClaimFailsWithItsError ==
    reg_last.op = "claim" =>
        /\ (LockedBefore /\ ~BoundBefore) => reg_last.result = "ResourceLocked"
        /\ (BoundBefore /\ ~LockedBefore) => reg_last.result = "SessionBound"
        /\ (LockedBefore /\ BoundBefore) =>
              reg_last.result \in {"ResourceLocked", "SessionBound"}
        /\ reg_last.result # "ok" => RegistryUnchanged

\* a session that owns a resource claimed a resource owned by another session
\* and the claim failed
C9_Witness ==
    /\ reg_last.op = "claim"
    /\ LockedBefore /\ BoundBefore
    /\ reg_last.result = "SessionBound"
    /\ RegistryUnchanged

----------------------------------------------------------------------------
(* C10 *)

\* before the last operation the session owned the resource
OwnedBefore == reg_last.owner_pre[reg_last.resource] = reg_last.session

\* C10: a claim by the session that already owns the resource succeeds and
\* changes no state; a release by the owner succeeds and leaves owner_of(R)
\* and resource_of(S) both none; a release by a session that does not own the
\* resource fails with ResourceNotOwned and changes no state.
C10_ReclaimAndRelease ==
    /\ (reg_last.op = "claim" /\ OwnedBefore) =>
          reg_last.result = "ok" /\ RegistryUnchanged
    /\ (reg_last.op = "release" /\ OwnedBefore) =>
          /\ reg_last.result = "ok"
          /\ owner_of[reg_last.resource] = 0
          /\ resource_of[reg_last.session] = 0
    /\ (reg_last.op = "release" /\ ~OwnedBefore) =>
          reg_last.result = "ResourceNotOwned" /\ RegistryUnchanged

\* the owner claimed its resource again
C10_Witness ==
    /\ reg_last.op = "claim" /\ OwnedBefore
    /\ reg_last.n >= 2
    /\ reg_last.result = "ok"
    /\ owner_of[reg_last.resource] = reg_last.session

----------------------------------------------------------------------------
(* C11 *)

\* C11: close is idempotent: a call of close on a connection that is already
\* closed is a no-op (the close code stays, no second close frame is sent)
\* and it returns the outcome the first close of the connection returned.
C11_CloseIsIdempotent ==
    \A i \in DOMAIN close_calls :
        close_calls[i].was_closed =>
            /\ closed
            /\ close_code = close_calls[i].code_pre
            /\ close_frames = close_calls[i].frames_pre
            /\ close_calls[i].result = close_calls[1].result

\* C11 amended: a call of close on a connection that is already closed is a
\* no-op (the close code stays, no second close frame is sent) and returns
\* False; only a call that closes the connection returns True.
C11_RepeatedCloseIsNoOp ==
    \A i \in DOMAIN close_calls :
        /\ ~close_calls[i].was_closed => close_calls[i].result = TRUE
        /\ close_calls[i].was_closed =>
              /\ closed
              /\ close_code = close_calls[i].code_pre
              /\ close_frames = close_calls[i].frames_pre
              /\ close_calls[i].result = FALSE

\* close was called twice with different codes: the first call closed the
\* connection, the second found it closed
C11_Witness ==
    /\ Len(close_calls) >= 2
    /\ close_calls[1].result = TRUE
    /\ close_calls[2].was_closed /\ close_calls[2].result = FALSE
    /\ close_calls[2].code # close_calls[1].code
    /\ close_code = close_calls[1].code
    /\ close_frames = 1

----------------------------------------------------------------------------
(* C12 *)

\* C12: when a coroutine run on a connection raises an unexpected exception,
\* the exception does not leave the wrapper, close code 4999 (InternalError)
\* is signalled, and the close of the connection with that code is under way:
\* the error future holds 4999, or the connection is closed.
C12_TaskFaultClosesWithInternalError ==
    \A i \in DOMAIN wrapped :
        wrapped[i].outcome = "Exception" =>
            /\ wrapped[i].raised = "none"
            /\ wrapped[i].signal = InternalError
            /\ error_futr = InternalError \/ closed

----------------------------------------------------------------------------
(* C13 *)

\* C13: when a coroutine run on a connection is cancelled, the wrapper only
\* logs it, below error severity: it signals no close code (in particular not
\* 4999), the error future stays pending, and no exception leaves the wrapper.
C13_CancellationIsOnlyLogged ==
    /\ \A i \in DOMAIN wrapped :
          wrapped[i].outcome = "CancelledError" =>
              /\ wrapped[i].logged = "INFO"
              /\ wrapped[i].signal = 0
              /\ wrapped[i].raised = "none"
    /\ (\A i \in DOMAIN wrapped : wrapped[i].outcome = "CancelledError") =>
          error_futr = 0 /\ close_code # InternalError

\* a coroutine was cancelled on an open connection after another had faulted
C13_Witness ==
    /\ Len(wrapped) >= 2
    /\ wrapped[1].outcome = "Exception"
    /\ wrapped[2].outcome = "CancelledError"
    /\ wrapped[2].signal = 0
    /\ ~closed

----------------------------------------------------------------------------
(* C14 *)

\* C14: within one connection frames are processed in arrival order and the
\* Events the receive operation returns keep that order: the frame numbers of
\* the delivered Events increase strictly (none is delivered before an Event
\* of an earlier frame, none twice), the frame processed last is the one that
\* arrived last, and an Event is delivered exactly when the frame just
\* processed is an Event, and it is that frame's Event.
C14_EventsDeliveredInArrivalOrder ==
    /\ \A i, j \in DOMAIN delivered : i < j => delivered[i].n < delivered[j].n
    /\ \A i \in DOMAIN delivered : delivered[i].n <= nframes
    /\ nframes >= 1 => last.n = nframes
    /\ last.do = "return" =>
          /\ WellFormedEvent(last.message)
          /\ delivered # <<>>
          /\ delivered[Len(delivered)].n = last.n
          /\ delivered[Len(delivered)].id = last.message.data.id
    /\ (last.n >= 1 /\ last.do # "return") => NotDelivered(last.n)

\* two Events were delivered with an absorbed Ack between them
C14_Witness ==
    /\ Len(delivered) = 2
    /\ delivered[1].n = 1 /\ delivered[2].n = 3
    /\ delivered[1].id = "a" /\ delivered[2].id = "b"

----------------------------------------------------------------------------
(* C15 *)

\* C15: every Event the receive operation returns satisfies the Event
\* invariant: reason is null exactly when status is Normal (a string when the
\* status is Error or Fatal), and payload is a map.
C15_DeliveredEventInvariant ==
    ret.kind = "return" =>
        /\ ret.msg.reason = NoValue <=> ret.msg.status = "normal"
        /\ ret.msg.reason \in {NoValue, Str}
        /\ ret.msg.payload = Map

----------------------------------------------------------------------------
(* C16 *)

\* the close codes of the wire codec
CodecCloseCodes ==
    {InvalidFrameType, InvalidJSON, MissingField, InvalidType, InvalidValue}

\* C16: a frame whose sent_at is a timestamp without UTC offset is rejected
\* by decoding: no Event or Ack is made of it, nothing is delivered for it,
\* and the connection is closed with a codec close code.
C16_NaiveTimestampRejected ==
    (LastFrameDecoded /\ IsObject(last.message) /\ last.message.data.sent_at = Naive) =>
        /\ last.do = "close"
        /\ closed
        /\ close_code \in CodecCloseCodes
        /\ NotDelivered(last.n)
        /\ ret.kind # "return"

\* after an Event was delivered, an Event whose only defect is its naive
\* timestamp closed the connection
C16_Witness ==
    /\ LastFrameDecoded /\ IsObject(last.message)
    /\ last.message.data.sent_at = Naive
    /\ last.message.data.type = "event"
    /\ Len(delivered) >= 1
    /\ closed /\ close_code = InvalidValue

----------------------------------------------------------------------------
(* C17 *)

\* the defects of an object of a recognized type, by the step of the codec
\* that is to find them: a required field is missing, a field holds a value
\* of the wrong type, an enumerated field or the timestamp holds a value that
\* is not recognized
HasMissingField(j) ==
    \/ j.id = Absent \/ j.sent_at = Absent
    \/ j.type = "event" /\ (j.status = Absent \/ j.payload = Absent)
HasWrongType(j) ==
    \/ j.id = NonStr \/ j.sent_at = NonStr
    \/ j.type = "event" /\ (j.reason = NonStr \/ j.payload = NonMap)
HasBadValue(j) ==
    \/ j.sent_at = Naive
    \/ j.type = "event" /\ j.status = Other

\* the close code of the earliest failing step, 0 when no step fails
EarliestFailure(j) ==
    IF HasMissingField(j) THEN MissingField
    ELSE IF HasWrongType(j) THEN InvalidType
    ELSE IF HasBadValue(j) THEN InvalidValue
    ELSE 0

\* C17: the codec checks frame type, JSON structure, missing field, field
\* type and enumerated value in this order, each step short-circuiting: a
\* frame that is not text fails with InvalidFrameType, text that does not
\* parse with InvalidJSON, and an object of a recognized type with several
\* defects fails with the code of the earliest failing step (a missing field
\* before a wrong type, a wrong type before an unrecognized value).  A status
\* of the wrong JSON type, which is a defect of both of the last two steps, is
\* left aside.
C17_EarliestFailingStepReported ==
    /\ (last.n = 1 /\ last.message.type # "TEXT") =>
          last.do = "raise" /\ last.code = InvalidFrameType
    /\ (last.n = 1 /\ last.message.type = "TEXT" /\ last.message.data.kind = "notjson") =>
          last.do = "raise" /\ last.code = InvalidJSON
    /\ (/\ last.n = 1 /\ IsObject(last.message)
        /\ last.message.data.type \in CustomWSMessageType
        /\ last.message.data.status # NonStr
        /\ EarliestFailure(last.message.data) # 0)
       => last.do = "raise" /\ last.code = EarliestFailure(last.message.data)

----------------------------------------------------------------------------
(* C18 *)

\* C18: a text frame holding a JSON object whose type discriminator is absent
\* or is not one of "event" and "ack" fails decoding with MissingField (4003).
C18_UnrecognizedTypeIsMissingField ==
    (/\ last.n = 1 /\ IsObject(last.message)
     /\ last.message.data.type \notin CustomWSMessageType)
    => last.do = "raise" /\ last.code = 4003

----------------------------------------------------------------------------
(* C19 *)

\* C19: a text frame whose content is valid JSON but not an object (an array,
\* a string, a number) fails decoding with InvalidJSON (4002).
C19_NonObjectJsonIsInvalidJson ==
    (/\ last.n = 1 /\ last.message.type = "TEXT"
     /\ last.message.data.kind \in {"array", "scalar"})
    => last.do = "raise" /\ last.code = 4002

----------------------------------------------------------------------------
(* C20 *)

\* C20: on a ratelimited connection the ratelimit check runs once for every
\* inbound frame, before the frame is decoded: every frame that passes the
\* check, malformed or not, is recorded as the newest hit of the window; a
\* frame that fails the check, malformed or not, closes the connection with
\* the policy-violation code and records no hit.  On a connection that is not
\* ratelimited no hit is ever recorded and no frame is rejected for rate.
C20_RatelimitCheckedBeforeDecode ==
    /\ ratelimited =>
          /\ ncalls = nframes
          /\ last.n >= 1 => last.checked
    /\ (last.n >= 1 /\ last.checked /\ ~last.rl.raised) =>
          /\ hits # <<>>
          /\ hits[Len(hits)] = clock
          /\ Len(hits) = Len(Within(last.pre, clock, interval)) + 1
    /\ (last.n >= 1 /\ last.checked /\ last.rl.raised) =>
          /\ closed
          /\ close_code = POLICY_VIOLATION
          /\ Len(hits) = Len(Within(last.pre, clock, interval))
    /\ ~ratelimited =>
          /\ hits = <<>>
          /\ ncalls = 0
          /\ ~last.rl.raised
          /\ close_code # POLICY_VIOLATION

\* a malformed frame arrived on a full window that held a hit, and the
\* connection was closed for rate
C20_Witness ==
    /\ ratelimited /\ limit >= 1
    /\ last.n >= 2 /\ last.rl.raised
    /\ Len(last.pre) >= limit
    /\ MappedCodes(last.message) # {}
    /\ closed /\ close_code = POLICY_VIOLATION

----------------------------------------------------------------------------
(* C21 *)

\* C21: the connection only moves forward from open to closed and closed is
\* terminal: a closed connection stays closed with the close code it has, and
\* a call of close leaves the connection closed; the call of the receive
\* operation that closes the connection for a ratelimit or codec violation
\* signals end of stream and returns no Event; on a closed connection no call
\* of the receive operation consumes a frame, records a hit or returns an
\* Event, and every such call ends with end of stream.
C21_ClosedIsTerminal ==
    [][/\ closed => closed' /\ close_code' = close_code
       /\ close_calls' # <<>> => closed'
       /\ (~closed /\ nframes' = nframes + 1 /\ last'.do = "close") =>
             /\ closed'
             /\ pc' = "idle" /\ ret' = StopAsyncIteration
             /\ delivered' = delivered
       /\ closed =>
             /\ nframes' = nframes /\ hits' = hits /\ delivered' = delivered
             /\ ret' # ret => ret'.kind # "return"
       /\ (closed /\ pc = "waiting" /\ pc' = "idle") => ret' = StopAsyncIteration
      ]_vars

\* after an Event was delivered the receive operation closed the connection
\* for a violation, and a later call of it waits on the closed connection
C21_Witness ==
    /\ last.do = "close" /\ closed
    /\ Len(delivered) >= 1
    /\ close_calls # <<>>
    /\ nframes = last.n
    /\ pc = "waiting"

====
